---- MODULE Spec2Model ----
(***************************************************************************)
(* Folder Text Processor (src/src/App.tsx): the drop handler, the          *)
(* asynchronous tree walker processFileEntry, the tree renderer            *)
(* generateTreeText and the content aggregator generateCombinedText.       *)
(*                                                                         *)
(* Strings are sequences of one-character strings, so that startsWith,     *)
(* endsWith, toLowerCase, repeat and template concatenation are computed   *)
(* character by character.  The two box-drawing characters of the tree     *)
(* connectors are the one-element tokens "U+2514", "U+251C" and "U+2500".  *)
(*                                                                         *)
(* One action is one browser task: a DOM event handler or the delivery of  *)
(* one file-system callback, together with every promise continuation      *)
(* (microtask) that it makes runnable.                                     *)
(***************************************************************************)
EXTENDS Integers, Sequences, FiniteSets, TLC

----------------------------------------------------------------------------
(* Bounds of the model *)

\* traversals in flight at once
MaxInFlight == 2
\* largest number of entries one readEntries call delivers
MaxBatch == 2
\* largest slider position the user moves the size slider to
MaxSlider == 2

----------------------------------------------------------------------------
(* Program constants *)

\* <input type="range" min="1" max="10">
SliderMin == 1
SliderMax == 10
\* useState<number>(1)
DefaultMaxFileSize == 1
\* maxFileSize * 1024 * 1024 and entry.size / 1024
Kibi == 1024
\* '='.repeat(80)
SeparatorWidth == 80

----------------------------------------------------------------------------
(* Strings *)

UpperCase == <<"A", "B", "C", "D", "E", "F", "G", "H", "I", "J", "K", "L", "M",
               "N", "O", "P", "Q", "R", "S", "T", "U", "V", "W", "X", "Y", "Z">>
LowerCase == <<"a", "b", "c", "d", "e", "f", "g", "h", "i", "j", "k", "l", "m",
               "n", "o", "p", "q", "r", "s", "t", "u", "v", "w", "x", "y", "z">>
DecimalDigits == <<"0", "1", "2", "3", "4", "5", "6", "7", "8", "9">>

\* String.prototype.toLowerCase, one character
ToLowerChar(c) ==
  IF \E i \in DOMAIN UpperCase : UpperCase[i] = c
  THEN LowerCase[CHOOSE i \in DOMAIN UpperCase : UpperCase[i] = c]
  ELSE c

\* String.prototype.toLowerCase
toLowerCase(s) == [i \in 1..Len(s) |-> ToLowerChar(s[i])]

\* String.prototype.startsWith
startsWith(s, prefix) ==
  /\ Len(prefix) <= Len(s)
  /\ SubSeq(s, 1, Len(prefix)) = prefix

\* String.prototype.endsWith
endsWith(s, suffix) ==
  /\ Len(suffix) <= Len(s)
  /\ SubSeq(s, Len(s) - Len(suffix) + 1, Len(s)) = suffix

\* String.prototype.repeat
repeat(s, n) == [i \in 1..(n * Len(s)) |-> s[((i - 1) % Len(s)) + 1]]

\* Array.prototype.includes
includes(list, x) == \E i \in DOMAIN list : list[i] = x

\* decimal numeral of a natural number
RECURSIVE Numeral(_)
Numeral(n) ==
  IF n < 10 THEN <<DecimalDigits[n + 1]>>
  ELSE Numeral(n \div 10) \o <<DecimalDigits[(n % 10) + 1]>>

\* (size / 1024).toFixed(1): the tenths nearest to size / 1024, the larger
\* one on a tie (size / 1024 is exact in binary floating point)
toFixed1(size) ==
  LET tenths == ((size * 10 * 2) + Kibi) \div (2 * Kibi)
  IN Numeral(tenths \div 10) \o <<".">> \o Numeral(tenths % 10)

----------------------------------------------------------------------------
(* The ignore set and the text allow-list *)

directoriesToIgnore ==
  << <<".", "g", "i", "t">>,
     <<".", "s", "v", "n">>,
     <<".", "h", "g">>,
     <<"n", "o", "d", "e", "_", "m", "o", "d", "u", "l", "e", "s">>,
     <<"v", "e", "n", "d", "o", "r">>,
     <<"b", "o", "w", "e", "r", "_", "c", "o", "m", "p", "o", "n", "e", "n", "t", "s">>,
     <<".", "v", "e", "n", "v">>,
     <<"v", "e", "n", "v">>,
     <<"e", "n", "v">>,
     <<"v", "i", "r", "t", "u", "a", "l", "e", "n", "v">>,
     <<"_", "_", "p", "y", "c", "a", "c", "h", "e", "_", "_">>,
     <<"t", "a", "r", "g", "e", "t">>,
     <<"d", "i", "s", "t">>,
     <<"b", "u", "i", "l", "d">>,
     <<"o", "u", "t">>,
     <<".", "i", "d", "e", "a">>,
     <<".", "v", "s", "c", "o", "d", "e">>,
     <<".", "v", "s">>,
     <<".", "e", "n", "v">>,
     <<".", "e", "n", "v", ".", "l", "o", "c", "a", "l">>,
     <<".", "e", "n", "v", ".", "d", "e", "v", "e", "l", "o", "p", "m", "e", "n", "t">>,
     <<".", "e", "n", "v", ".", "p", "r", "o", "d", "u", "c", "t", "i", "o", "n">>,
     <<".", "c", "o", "n", "f", "i", "g">>,
     <<".", "s", "e", "t", "t", "i", "n", "g", "s">>,
     <<".", "c", "a", "c", "h", "e">>,
     <<".", "t", "m", "p">>,
     <<"t", "e", "m", "p">>,
     <<"t", "m", "p">>,
     <<"b", "i", "n">>,
     <<"o", "b", "j">>,
     <<"c", "o", "v", "e", "r", "a", "g", "e">>,
     <<".", "n", "y", "c", "_", "o", "u", "t", "p", "u", "t">>,
     <<"t", "e", "s", "t", "-", "r", "e", "s", "u", "l", "t", "s">>,
     <<"d", "o", "c", "s">>,
     <<".", "g", "i", "t", "h", "u", "b">>,
     <<".", "D", "S", "_", "S", "t", "o", "r", "e">>,
     <<"T", "h", "u", "m", "b", "s", ".", "d", "b">>,
     <<".", "t", "e", "r", "r", "a", "f", "o", "r", "m">>,
     <<".", "s", "e", "r", "v", "e", "r", "l", "e", "s", "s">>,
     <<".", "n", "e", "x", "t">>,
     <<".", "n", "u", "x", "t">>,
     <<".", "s", "v", "e", "l", "t", "e", "-", "k", "i", "t">>,
     <<".", "a", "n", "g", "u", "l", "a", "r">>,
     <<".", "p", "a", "r", "c", "e", "l", "-", "c", "a", "c", "h", "e">>,
     <<".", "y", "a", "r", "n">>,
     <<".", "p", "n", "p">>,
     <<".", "y", "a", "r", "n", "-", "i", "n", "t", "e", "g", "r", "i", "t", "y">> >>

textExtensions ==
  << <<".", "t", "x", "t">>,
     <<".", "m", "d">>,
     <<".", "j", "s">>,
     <<".", "j", "s", "x">>,
     <<".", "t", "s">>,
     <<".", "t", "s", "x">>,
     <<".", "c", "s", "s">>,
     <<".", "s", "c", "s", "s">>,
     <<".", "l", "e", "s", "s">>,
     <<".", "h", "t", "m", "l">>,
     <<".", "h", "t", "m">>,
     <<".", "j", "s", "o", "n">>,
     <<".", "y", "a", "m", "l">>,
     <<".", "y", "m", "l">>,
     <<".", "x", "m", "l">>,
     <<".", "p", "s", "1">>,
     <<".", "p", "y">>,
     <<".", "r">>,
     <<".", "j", "a", "v", "a">>,
     <<".", "k", "t">>,
     <<".", "s", "c", "a", "l", "a">>,
     <<".", "g", "o">>,
     <<".", "r", "s">>,
     <<".", "p", "h", "p">>,
     <<".", "r", "b">>,
     <<".", "p", "l">>,
     <<".", "s", "h">>,
     <<".", "b", "a", "s", "h">>,
     <<".", "z", "s", "h">>,
     <<".", "f", "i", "s", "h">>,
     <<".", "l", "u", "a">>,
     <<".", "s", "q", "l">>,
     <<".", "s", "w", "i", "f", "t">>,
     <<".", "m">>,
     <<".", "h">>,
     <<".", "c">>,
     <<".", "c", "p", "p">>,
     <<".", "h", "p", "p">>,
     <<".", "c", "c">>,
     <<".", "h", "h">>,
     <<".", "c", "s">>,
     <<".", "f", "s">>,
     <<".", "v", "b">>,
     <<".", "d", "a", "r", "t">>,
     <<".", "e", "l", "m">>,
     <<".", "c", "l", "j">>,
     <<".", "c", "l", "j", "s">>,
     <<".", "e", "d", "n">>,
     <<".", "e", "x">>,
     <<".", "e", "x", "s">>,
     <<".", "e", "r", "l">>,
     <<".", "h", "r", "l">>,
     <<".", "m", "l">>,
     <<".", "m", "l", "i">>,
     <<".", "f", "s", "i">>,
     <<".", "f", "s", "x">>,
     <<".", "v">>,
     <<".", "s", "v">>,
     <<".", "v", "h", "d">>,
     <<".", "v", "h", "d", "l">>,
     <<".", "t", "e", "x">>,
     <<".", "s", "t", "y">>,
     <<".", "c", "l", "s">>,
     <<".", "r", "d">>,
     <<".", "r", "s">>,
     <<".", "r", "l", "i", "b">>,
     <<".", "t", "o", "m", "l">>,
     <<".", "i", "n", "i">>,
     <<".", "c", "f", "g">>,
     <<".", "c", "o", "n", "f">>,
     <<".", "e", "n", "v">>,
     <<".", "d", "o", "c", "k", "e", "r", "f", "i", "l", "e">>,
     <<".", "g", "i", "t", "i", "g", "n", "o", "r", "e">>,
     <<".", "g", "i", "t", "a", "t", "t", "r", "i", "b", "u", "t", "e", "s">>,
     <<".", "e", "d", "i", "t", "o", "r", "c", "o", "n", "f", "i", "g">>,
     <<".", "n", "p", "m", "r", "c">>,
     <<".", "y", "a", "r", "n", "r", "c">>,
     <<".", "b", "a", "b", "e", "l", "r", "c">>,
     <<".", "e", "s", "l", "i", "n", "t", "r", "c">>,
     <<".", "p", "r", "e", "t", "t", "i", "e", "r", "r", "c">>,
     <<".", "s", "t", "y", "l", "e", "l", "i", "n", "t", "r", "c">>,
     <<".", "h", "t", "a", "c", "c", "e", "s", "s">>,
     <<".", "n", "g", "i", "n", "x">>,
     <<".", "a", "p", "a", "c", "h", "e">>,
     <<".", "l", "o", "g">>,
     <<".", "d", "i", "f", "f">>,
     <<".", "p", "a", "t", "c", "h">> >>

\* directoriesToIgnore.includes(name)
IgnoredName(name) == includes(directoriesToIgnore, name)

\* the ignore test applied to hidden directories only
IsIgnoredHiddenDirectory(entry) ==
  entry.isDirectory /\ IgnoredName(entry.name) /\ entry.name[1] = "."

\* entry.isDirectory && directoriesToIgnore.includes(entry.name)
IsIgnoredDirectory(entry) == entry.isDirectory /\ IgnoredName(entry.name)

TextPrefix == <<"t", "e", "x", "t", "/">>

\* file.type.startsWith('text/') || [...].some(ext => file.name.toLowerCase().endsWith(ext))
isTextFile(file) ==
  \/ startsWith(file.type, TextPrefix)
  \/ \E i \in DOMAIN textExtensions : endsWith(toLowerCase(file.name), textExtensions[i])

\* maxFileSize * 1024 * 1024
LimitBytes(limit) == limit * Kibi * Kibi

\* the size test with the boundary included
AtMostLimit(size, limit) == size <= LimitBytes(limit)

\* file.size < maxFileSize * 1024 * 1024
UnderLimit(size, limit) == size < LimitBytes(limit)

----------------------------------------------------------------------------
(* The file system the user drops from: FileSystemEntry objects, by number. *)
(* `listing` is what a directory's reader enumerates, in its order; `type`, *)
(* `size` and `text` are what the File of a file entry reports (`text`      *)
(* abbreviates the decoded content; it is empty exactly for size 0).        *)

FileEntryOf(name, type, size, text) ==
  [name |-> name, isDirectory |-> FALSE, isFile |-> TRUE,
   type |-> type, size |-> size, text |-> text, listing |-> <<>>]

DirectoryEntryOf(name, listing) ==
  [name |-> name, isDirectory |-> TRUE, isFile |-> FALSE,
   type |-> <<>>, size |-> 0, text |-> <<>>, listing |-> listing]

TextPlain == <<"t", "e", "x", "t", "/", "p", "l", "a", "i", "n">>
TextJavascript == <<"t", "e", "x", "t", "/", "j", "a", "v", "a", "s", "c", "r", "i", "p", "t">>
ImagePng == <<"i", "m", "a", "g", "e", "/", "p", "n", "g">>

Disk ==
  << \* 1: project/  (readme.md, node_modules/, src/, .env)
     DirectoryEntryOf(<<"p", "r", "o", "j", "e", "c", "t">>, <<2, 3, 4, 5>>),
     \* 2: project/readme.md
     FileEntryOf(<<"r", "e", "a", "d", "m", "e", ".", "m", "d">>, <<>>, 20, <<"h", "i">>),
     \* 3: project/node_modules/  (index.js)
     DirectoryEntryOf(<<"n", "o", "d", "e", "_", "m", "o", "d", "u", "l", "e", "s">>, <<6>>),
     \* 4: project/src/  (main.ts, .git/)
     DirectoryEntryOf(<<"s", "r", "c">>, <<7, 8>>),
     \* 5: project/.env, a file whose name is in the ignore set
     FileEntryOf(<<".", "e", "n", "v">>, <<>>, 5, <<"k">>),
     \* 6: project/node_modules/index.js
     FileEntryOf(<<"i", "n", "d", "e", "x", ".", "j", "s">>, TextJavascript, 10, <<"j">>),
     \* 7: project/src/main.ts
     FileEntryOf(<<"m", "a", "i", "n", ".", "t", "s">>, <<>>, 50, <<"m", "\n", "t">>),
     \* 8: project/src/.git/  (HEAD.txt)
     DirectoryEntryOf(<<".", "g", "i", "t">>, <<9>>),
     \* 9: project/src/.git/HEAD.txt
     FileEntryOf(<<"H", "E", "A", "D", ".", "t", "x", "t">>, TextPlain, 4, <<"r">>),
     \* 10: data/  (under.txt, EDGE.LOG, huge.log, logo.png)
     DirectoryEntryOf(<<"d", "a", "t", "a">>, <<11, 12, 13, 14>>),
     \* 11: data/under.txt, one byte under 1 MiB
     FileEntryOf(<<"u", "n", "d", "e", "r", ".", "t", "x", "t">>, TextPlain, 1048575, <<"u">>),
     \* 12: data/EDGE.LOG, exactly 1 MiB, no media type
     FileEntryOf(<<"E", "D", "G", "E", ".", "L", "O", "G">>, <<>>, 1048576, <<"e">>),
     \* 13: data/huge.log, 2 MiB
     FileEntryOf(<<"h", "u", "g", "e", ".", "l", "o", "g">>, <<>>, 2097152, <<"g">>),
     \* 14: data/logo.png, 3 MiB, not a text candidate
     FileEntryOf(<<"l", "o", "g", "o", ".", "p", "n", "g">>, ImagePng, 3145728, <<"p">>),
     \* 15: lib/  (dist/, zero.txt, notes, shell/, .DS_Store)
     DirectoryEntryOf(<<"l", "i", "b">>, <<16, 17, 18, 19, 20>>),
     \* 16: lib/dist/  (app.js)
     DirectoryEntryOf(<<"d", "i", "s", "t">>, <<21>>),
     \* 17: lib/zero.txt, an empty text file
     FileEntryOf(<<"z", "e", "r", "o", ".", "t", "x", "t">>, TextPlain, 0, <<>>),
     \* 18: lib/notes, text by media type only
     FileEntryOf(<<"n", "o", "t", "e", "s">>, TextPlain, 3, <<"n">>),
     \* 19: lib/shell/  (build/): every child ignored
     DirectoryEntryOf(<<"s", "h", "e", "l", "l">>, <<22>>),
     \* 20: lib/.DS_Store, a file whose name is in the ignore set
     FileEntryOf(<<".", "D", "S", "_", "S", "t", "o", "r", "e">>, <<>>, 6, <<"d">>),
     \* 21: lib/dist/app.js
     FileEntryOf(<<"a", "p", "p", ".", "j", "s">>, TextJavascript, 7, <<"a">>),
     \* 22: lib/shell/build/
     DirectoryEntryOf(<<"b", "u", "i", "l", "d">>, <<>>),
     \* 23: empty/
     DirectoryEntryOf(<<"e", "m", "p", "t", "y">>, <<>>) >>

Entries == DOMAIN Disk

\* the directory whose listing holds entry e, 0 for a top-level entry
ParentOf ==
  [e \in Entries |->
     IF \E p \in Entries : includes(Disk[p].listing, e)
     THEN CHOOSE p \in Entries : includes(Disk[p].listing, e)
     ELSE 0]

\* the classification of each entry of the disk
IgnoredDirectories == {e \in Entries : IsIgnoredDirectory(Disk[e])}
TextCandidates == {e \in Entries : isTextFile(Disk[e])}

\* the entries the user drags onto the page: the folders project, data and
\* lib, the empty folder, node_modules (a folder of the ignore set) and the
\* single file readme.md
DropRoots == {1, 2, 3, 10, 15, 23}

----------------------------------------------------------------------------
(* FileEntry, the node of the tree (interface FileEntry), and null *)

null == [isNull |-> TRUE]

\* resolve({name, path, content, size, isDirectory: false})
FileNode(name, path, content, size) ==
  [name |-> name, path |-> path, content |-> content, size |-> size,
   isDirectory |-> FALSE]

\* return {name, path, isDirectory: true, children}
DirectoryNode(name, path, children) ==
  [name |-> name, path |-> path, isDirectory |-> TRUE, children |-> children]

\* `${path}/${entry.name}`
JoinPath(path, name) == path \o <<"/">> \o name

\* an optional field of a FileEntry is set
Has(node, field) == field \in DOMAIN node

----------------------------------------------------------------------------
(* generateTreeText and generateCombinedText *)

ElbowConnector == <<"U+2514", "U+2500", " ">>
TeeConnector == <<"U+251C", "U+2500", " ">>

RECURSIVE generateTreeText(_, _, _)
RECURSIVE TreeTextOfChildren(_, _, _)

\* isLast computed as index === 0: the first child gets the elbow
TreeTextOfChildrenFirstAsLast(children, i, level) ==
  IF i > Len(children) THEN <<>>
  ELSE generateTreeText(children[i], level + 1, i = 1)
         \o TreeTextOfChildren(children, i + 1, level)

\* entry.children.forEach((child, index) => result += generateTreeText(...)),
\* from index i (1-based) on
TreeTextOfChildren(children, i, level) ==
  IF i > Len(children) THEN <<>>
  ELSE generateTreeText(children[i], level + 1, i = Len(children))
         \o TreeTextOfChildren(children, i + 1, level)

\* the connector left out on the first level as on the root
generateTreeTextBareTop(entry, level, isLast) ==
  LET indent == IF level <= 1 THEN <<>>
                ELSE repeat(<<" ", " ">>, level - 1)
                       \o (IF isLast THEN ElbowConnector ELSE TeeConnector)
      sizeInfo == IF Has(entry, "size") /\ entry.size # 0
                  THEN <<" ", "(">> \o toFixed1(entry.size) \o <<" ", "K", "B", ")">>
                  ELSE <<>>
      result == indent \o entry.name \o sizeInfo \o <<"\n">>
  IN IF Has(entry, "children")
     THEN result \o TreeTextOfChildren(entry.children, 1, level)
     ELSE result

generateTreeText(entry, level, isLast) ==
  LET indent == IF level = 0 THEN <<>>
                ELSE repeat(<<" ", " ">>, level - 1)
                       \o (IF isLast THEN ElbowConnector ELSE TeeConnector)
      sizeInfo == IF Has(entry, "size") /\ entry.size # 0
                  THEN <<" ", "(">> \o toFixed1(entry.size) \o <<" ", "K", "B", ")">>
                  ELSE <<>>
      result == indent \o entry.name \o sizeInfo \o <<"\n">>
  IN IF Has(entry, "children")
     THEN result \o TreeTextOfChildren(entry.children, 1, level)
     ELSE result

\* '='.repeat(80)
SeparatorLine == repeat(<<"=">>, SeparatorWidth)

\* the block with the content right under the second separator
FileBlockNoBlankLine(entry) ==
  <<"\n">> \o SeparatorLine \o <<"\n">>
    \o <<"F", "i", "l", "e", ":", " ">> \o entry.path \o <<"\n">>
    \o SeparatorLine \o <<"\n">>
    \o entry.content \o <<"\n">>

\* the four template strings appended for one file with content
FileBlock(entry) ==
  <<"\n">> \o SeparatorLine \o <<"\n">>
    \o <<"F", "i", "l", "e", ":", " ">> \o entry.path \o <<"\n">>
    \o SeparatorLine \o <<"\n", "\n">>
    \o entry.content \o <<"\n">>

RECURSIVE generateCombinedText(_)
RECURSIVE CombinedTextOfChildren(_, _)

\* for (const child of entry.children) result += generateCombinedText(child)
CombinedTextOfChildren(children, i) ==
  IF i > Len(children) THEN <<>>
  ELSE generateCombinedText(children[i]) \o CombinedTextOfChildren(children, i + 1)

\* a block for every file, with or without content
generateCombinedTextOfEveryFile(entry) ==
  IF entry.isDirectory /\ Has(entry, "children")
  THEN CombinedTextOfChildren(entry.children, 1)
  ELSE IF ~entry.isDirectory
       THEN FileBlock(entry)
       ELSE <<>>

generateCombinedText(entry) ==
  IF entry.isDirectory /\ Has(entry, "children")
  THEN CombinedTextOfChildren(entry.children, 1)
  ELSE IF ~entry.isDirectory /\ Has(entry, "content") /\ entry.content # <<>>
       THEN FileBlock(entry)
       ELSE <<>>

FolderStructureHeading ==
  <<"F", "o", "l", "d", "e", "r", " ", "S", "t", "r", "u", "c", "t", "u", "r", "e", ":", "\n">>

\* `${treeText}\n${filesText}` with treeText = `Folder Structure:\n${generateTreeText(structure)}`
CombinedOutput(structure) ==
  FolderStructureHeading \o generateTreeText(structure, 0, TRUE) \o <<"\n">>
    \o generateCombinedText(structure)

----------------------------------------------------------------------------
(* State *)

VARIABLES
  folderStructure,   \* useState<FileEntry | null>(null)
  combinedText,      \* useState<string>('')
  isDragging,        \* useState(false)
  maxFileSize,       \* useState<number>(1), in MiB
  showSizeWarning,   \* useState(false)
  drop,              \* per slot: the handleDrop invocation it holds
  task,              \* per slot and entry: the processFileEntry invocation
  lastDrop,          \* the slot of the drop started last, 0 before the first
  prev,              \* the drop started before that one, as that one found it
  overlap            \* whether the user drags and drops while a traversal is in flight

vars == <<folderStructure, combinedText, isDragging, maxFileSize, showSizeWarning,
          drop, task, lastDrop, prev, overlap>>

\* a slot holds one traversal; a finished traversal's slot is taken by the next drop
Slots == 1..MaxInFlight

(* A processFileEntry invocation.  pc is where it is suspended:            *)
(*   "none"  never called                                                  *)
(*   "file"  fileEntry.file(callback) called, callback not yet delivered   *)
(*   "text"  awaiting file.text()                                          *)
(*   "read"  dirReader.readEntries(callback) called, callback not yet      *)
(*           delivered                                                     *)
(*   "all"   awaiting Promise.all of the children                          *)
(*   "done"  its promise is fulfilled with `node`                          *)
(*   "lost"  the read it waits for has failed: processFileEntry passes no  *)
(*           error callback and catches no rejection, so nothing will ever *)
(*           settle its promise                                            *)
(* path is the path argument, reader whether createReader was called, pos  *)
(* the number of entries the reader has handed out, results the array of   *)
(* the same name, settled the children in the order their promises were    *)
(* fulfilled while Promise.all is pending.                                 *)
NoTask ==
  [pc |-> "none", path |-> <<>>, reader |-> FALSE, pos |-> 0, results |-> <<>>,
   settled |-> <<>>, node |-> null]

(* A handleDrop invocation: status "none" | "walking" | "done", the entry  *)
(* dropped, the maxFileSize its closure captured, the awaited structure,   *)
(* and four facts about its run: raced (a promise was fulfilled while an   *)
(* earlier sibling's was pending), paged (a reader handed a listing out in *)
(* more than one non-empty batch), latest (no drop event has come since it *)
(* started) and alone (latest, and no other traversal was in flight when   *)
(* it started).                                                            *)
NoDrop ==
  [status |-> "none", root |-> 0, limit |-> 0, structure |-> null,
   raced |-> FALSE, paged |-> FALSE, latest |-> FALSE, alone |-> FALSE]

Init ==
  /\ folderStructure = null
  /\ combinedText = <<>>
  /\ isDragging = FALSE
  /\ maxFileSize = DefaultMaxFileSize
  /\ showSizeWarning = FALSE
  /\ drop = [d \in Slots |-> NoDrop]
  /\ task = [d \in Slots |-> [e \in Entries |-> NoTask]]
  /\ lastDrop = 0
  /\ prev = NoDrop
  /\ overlap = FALSE

----------------------------------------------------------------------------
(* processFileEntry, on the task table tk of one drop *)

\* isTextFile && file.size < maxFileSize * 1024 * 1024
ReadsContent(e, limit) ==
  e \in TextCandidates /\ UnderLimit(Disk[e].size, limit)

\* the warning raised for every file whose content is not read
SkippedAtAll(e, limit) == ~ReadsContent(e, limit)

\* else if (isTextFile): the branch that raises the size warning
SkippedForSize(e, limit) ==
  ~ReadsContent(e, limit) /\ e \in TextCandidates

\* processFileEntry(entry, path) up to its first suspension
Call(tk, e, path) ==
  IF e \in IgnoredDirectories
  THEN [tk EXCEPT ![e] = [NoTask EXCEPT !.pc = "done", !.path = path]]
  ELSE IF Disk[e].isFile
       THEN [tk EXCEPT ![e] = [NoTask EXCEPT !.pc = "file", !.path = path]]
       ELSE [tk EXCEPT ![e] = [NoTask EXCEPT !.pc = "read", !.path = path,
                                             !.reader = TRUE]]

\* the filter applied to the name alone, whatever the kind of the entry
filteredEntriesByName(entries) ==
  SelectSeq(entries, LAMBDA c : ~IgnoredName(Disk[c].name))

\* entries.filter(entry => !(entry.isDirectory && directoriesToIgnore.includes(entry.name)))
filteredEntries(entries) ==
  SelectSeq(entries, LAMBDA c : c \notin IgnoredDirectories)

\* the values in the order in which the promises were fulfilled
ValuesAsSettled(tk, p) ==
  [i \in 1..Len(tk[p].settled) |-> tk[tk[p].settled[i]].node]

\* the value of Promise.all(promises): the values in the order of the promises
PromiseAll(tk, p) ==
  LET promises == filteredEntries(tk[p].results)
  IN [i \in 1..Len(promises) |-> tk[promises[i]].node]

\* children.filter(child => child !== null)
validChildren(children) == SelectSeq(children, LAMBDA c : c # null)

\* the node a directory's invocation returns once Promise.all is fulfilled
DirectoryResult(tk, p) ==
  DirectoryNode(Disk[p].name, JoinPath(tk[p].path, Disk[p].name),
                validChildren(PromiseAll(tk, p)))

\* the node a file's invocation resolves with
FileResult(tk, e, content) ==
  FileNode(Disk[e].name, JoinPath(tk[e].path, Disk[e].name), content, Disk[e].size)

\* every entry of the listing has a fulfilled promise, the filtered-out ones too
AllListedSettled(tk, p) ==
  \A i \in DOMAIN tk[p].results : tk[tk[p].results[i]].pc = "done"

\* every promise handed to the Promise.all of directory p is fulfilled
AllSettled(tk, p) ==
  LET promises == filteredEntries(tk[p].results)
  IN \A i \in DOMAIN promises : tk[promises[i]].pc = "done"

(* The promise of invocation e is fulfilled with node n.  The Promise.all  *)
(* of the directory that called it records that; when e was its last       *)
(* pending promise, the directory's continuation runs in the same task and *)
(* fulfils the directory's promise in turn.                                *)
RECURSIVE Fulfil(_, _, _, _)
Fulfil(tk, root, e, n) ==
  LET t1 == [tk EXCEPT ![e].pc = "done", ![e].node = n, ![e].settled = <<>>]
      p == IF e = root THEN 0 ELSE ParentOf[e]
  IN IF p = 0 THEN t1
     ELSE LET t2 == [t1 EXCEPT ![p].settled = Append(@, e)]
          IN IF AllSettled(t2, p)
             THEN Fulfil(t2, root, p, DirectoryResult(t2, p))
             ELSE t2

\* the children called with the directory's own path argument
SamePath(path, name) == path

\* `${path}/${dirEntry.name}`, the path argument of the children's invocations
ChildPath(path, name) == JoinPath(path, name)

\* filteredEntries.map(entry => processFileEntry(entry, path)), from index i on
RECURSIVE CallEach(_, _, _, _)
CallEach(tk, entries, i, path) ==
  IF i > Len(entries) THEN tk
  ELSE CallEach(Call(tk, entries[i], path), entries, i + 1, path)

\* the continuation of `await new Promise(...)` in a directory's invocation:
\* filter, map, Promise.all
AwaitChildren(tk, root, p) ==
  LET filtered == filteredEntries(tk[p].results)
      t1 == CallEach(tk, filtered, 1, ChildPath(tk[p].path, Disk[p].name))
      t2 == [t1 EXCEPT ![p].pc = "all",
                       ![p].settled = SelectSeq(filtered, LAMBDA c : t1[c].pc = "done")]
  IN IF AllSettled(t2, p)
     THEN Fulfil(t2, root, p, DirectoryResult(t2, p))
     ELSE t2

\* results = entries: the batches before the last one are lost
Overwrite(results, entries) == entries

\* results.unshift(...entries): the batches end up in reverse order
Unshift(results, entries) == entries \o results

\* results.push(...entries)
Push(results, entries) == results \o entries

\* the readEntries callback: resolve(results) on an empty batch, else push and read on
OnEntries(tk, root, p, batch) ==
  IF Len(batch) = 0
  THEN AwaitChildren(tk, root, p)
  ELSE [tk EXCEPT ![p].results = Push(@, batch)]

\* a fulfilment of this step overtook an earlier sibling that is still pending
Raced(before, after, root) ==
  \E e \in Entries \ {root} :
    /\ before[e].pc # "done"
    /\ after[e].pc = "done"
    /\ LET siblings == filteredEntries(after[ParentOf[e]].results)
       IN \E i, j \in DOMAIN siblings :
            i < j /\ siblings[j] = e /\ after[siblings[i]].pc # "done"

----------------------------------------------------------------------------
(* handleDrop *)

\* no traversal is in flight
NoDropInFlight == \A d \in Slots : drop[d].status # "walking"

\* the continuation stores the tree and leaves the text to a later task
ResumeTreeOnly(d, root, tk) ==
  /\ task' = [task EXCEPT ![d] = tk]
  /\ folderStructure' =
       IF tk[root].pc = "done" /\ tk[root].node # null THEN tk[root].node
       ELSE folderStructure
  /\ UNCHANGED combinedText

(* The continuation of `await processFileEntry(entry)` in handleDrop, run  *)
(* by the task that leaves the traversal with task table tk: once the      *)
(* root's promise is fulfilled, a non-null structure is stored and         *)
(* rendered.                                                               *)
Resume(d, root, tk) ==
  LET finished == tk[root].pc = "done"
      structure == tk[root].node
  IN /\ task' = [task EXCEPT ![d] = tk]
     /\ IF finished /\ structure # null
        THEN /\ folderStructure' = structure
             /\ combinedText' = CombinedOutput(structure)
        ELSE UNCHANGED <<folderStructure, combinedText>>

\* the record of a drop after a task that takes its task table from before to tk
DropAfter(rec, before, tk, paged) ==
  [rec EXCEPT !.status = IF tk[rec.root].pc = "done" THEN "done" ELSE "walking",
              !.structure = IF tk[rec.root].pc = "done" THEN tk[rec.root].node ELSE null,
              !.raced = @ \/ Raced(before, tk, rec.root),
              !.paged = @ \/ paged]

\* the records of the earlier drops once another drop event has come
Disturbed == [d \in Slots |-> [drop[d] EXCEPT !.latest = FALSE, !.alone = FALSE]]

(* The drop event.  items is e.dataTransfer.items, each item the number of *)
(* the entry its webkitGetAsEntry() returns, 0 for null.                   *)
HandleDrop(items) ==
  /\ overlap \/ NoDropInFlight
  /\ isDragging' = FALSE
  /\ showSizeWarning' = FALSE
  /\ IF Len(items) = 0 \/ items[1] = 0
     THEN /\ drop' = Disturbed
          /\ UNCHANGED <<folderStructure, combinedText, task, lastDrop, prev>>
     ELSE /\ \E d \in Slots : drop[d].status # "walking"
          /\ LET d == CHOOSE s \in Slots :
                        /\ drop[s].status # "walking"
                        /\ \A t \in Slots : t < s => drop[t].status = "walking"
                 root == items[1]
                 tk == Call([e \in Entries |-> NoTask], root, <<>>)
                 rec == [NoDrop EXCEPT !.root = root, !.limit = maxFileSize,
                                       !.latest = TRUE, !.alone = NoDropInFlight]
             IN /\ lastDrop' = d
                /\ prev' = IF lastDrop = 0 THEN NoDrop ELSE Disturbed[lastDrop]
                /\ drop' = [Disturbed EXCEPT ![d] = DropAfter(rec, task[d], tk, FALSE)]
                /\ Resume(d, root, tk)
  /\ UNCHANGED <<maxFileSize, overlap>>

HandleDragOver ==
  /\ overlap \/ NoDropInFlight
  /\ isDragging' = TRUE
  /\ UNCHANGED <<folderStructure, combinedText, maxFileSize, showSizeWarning,
                 drop, task, lastDrop, prev, overlap>>

HandleDragLeave ==
  /\ overlap \/ NoDropInFlight
  /\ isDragging' = FALSE
  /\ UNCHANGED <<folderStructure, combinedText, maxFileSize, showSizeWarning,
                 drop, task, lastDrop, prev, overlap>>

\* onChange of the slider: setMaxFileSize(Number(e.target.value))
SetMaxFileSize(value) ==
  /\ value # maxFileSize
  /\ maxFileSize' = value
  /\ UNCHANGED <<folderStructure, combinedText, isDragging, showSizeWarning,
                 drop, task, lastDrop, prev, overlap>>

----------------------------------------------------------------------------
(* The callbacks of the file-system API *)

\* the slider's current value, as if processFileEntry read the state afresh
CurrentLimit(d) == maxFileSize

\* the maxFileSize in the closure of the handleDrop that runs in slot d
LimitOf(d) == drop[d].limit

(* fileEntry.file delivers the File of entry e to the callback of the drop *)
(* in slot d: the callback classifies it and either starts reading its     *)
(* text, or resolves with empty content, raising the warning for a text    *)
(* candidate.                                                              *)
FileCallback(d, e) ==
  /\ drop[d].status = "walking"
  /\ task[d][e].pc = "file"
  /\ LET root == drop[d].root
         tk == IF ReadsContent(e, LimitOf(d))
               THEN [task[d] EXCEPT ![e].pc = "text"]
               ELSE Fulfil(task[d], root, e, FileResult(task[d], e, <<>>))
     IN /\ showSizeWarning' = (showSizeWarning \/ SkippedForSize(e, LimitOf(d)))
        /\ drop' = [drop EXCEPT ![d] = DropAfter(@, task[d], tk, FALSE)]
        /\ Resume(d, root, tk)
  /\ UNCHANGED <<isDragging, maxFileSize, lastDrop, prev, overlap>>

\* file.text() is fulfilled: content = the text, resolve
TextLoaded(d, e) ==
  /\ drop[d].status = "walking"
  /\ task[d][e].pc = "text"
  /\ LET root == drop[d].root
         tk == Fulfil(task[d], root, e, FileResult(task[d], e, Disk[e].text))
     IN /\ drop' = [drop EXCEPT ![d] = DropAfter(@, task[d], tk, FALSE)]
        /\ Resume(d, root, tk)
  /\ UNCHANGED <<isDragging, maxFileSize, showSizeWarning, lastDrop, prev, overlap>>

(* The reader of directory p delivers its next batch: the next k entries   *)
(* of the listing, k >= 1 while entries remain, and the empty batch once   *)
(* the listing is exhausted.                                               *)
ReadEntriesCallback(d, p, k) ==
  /\ drop[d].status = "walking"
  /\ task[d][p].pc = "read"
  /\ LET listing == Disk[p].listing
         pos == task[d][p].pos
         root == drop[d].root
     IN /\ k <= Len(listing) - pos
        /\ (k = 0) = (pos = Len(listing))
        /\ LET batch == SubSeq(listing, pos + 1, pos + k)
               tk == OnEntries([task[d] EXCEPT ![p].pos = pos + k], root, p, batch)
           IN /\ drop' = [drop EXCEPT ![d] = DropAfter(@, task[d], tk, k > 0 /\ pos > 0)]
              /\ Resume(d, root, tk)
  /\ UNCHANGED <<isDragging, maxFileSize, showSizeWarning, lastDrop, prev, overlap>>

----------------------------------------------------------------------------
(* The system *)

\* what a drop event can carry
DropItems == {<<>>} \cup {<<x>> : x \in {0} \cup DropRoots}

\* the positions the user moves the slider to
SliderValues == {v \in SliderMin..SliderMax : v <= MaxSlider}

Next ==
  \/ \E items \in DropItems : HandleDrop(items)
  \/ HandleDragOver
  \/ HandleDragLeave
  \/ \E value \in SliderValues : SetMaxFileSize(value)
  \/ \E d \in Slots, e \in Entries : FileCallback(d, e)
  \/ \E d \in Slots, e \in Entries : TextLoaded(d, e)
  \/ \E d \in Slots, p \in Entries, k \in 0..MaxBatch : ReadEntriesCallback(d, p, k)

(* The user who lets a traversal end before dragging or dropping again      *)
(* (Init sets overlap = FALSE); the slider moves at any time, also while a  *)
(* traversal is in flight.                                                  *)
Spec == Init /\ [][Next]_vars

----------------------------------------------------------------------------
(* Reads that fail *)

(* fileEntry.file(successCallback) fails for entry e.  The call passes no  *)
(* error callback, so no code runs and resolve is never called.            *)
FileFails(d, e) ==
  /\ drop[d].status = "walking"
  /\ task[d][e].pc = "file"
  /\ task' = [task EXCEPT ![d][e].pc = "lost"]
  /\ UNCHANGED <<folderStructure, combinedText, isDragging, maxFileSize,
                 showSizeWarning, drop, lastDrop, prev, overlap>>

(* file.text() is rejected.  The await throws inside the async callback,   *)
(* whose own promise nobody holds: resolve is never called.                *)
TextFails(d, e) ==
  /\ drop[d].status = "walking"
  /\ task[d][e].pc = "text"
  /\ task' = [task EXCEPT ![d][e].pc = "lost"]
  /\ UNCHANGED <<folderStructure, combinedText, isDragging, maxFileSize,
                 showSizeWarning, drop, lastDrop, prev, overlap>>

(* dirReader.readEntries(successCallback) fails for directory p.  No error *)
(* callback is passed: readEntries is not called again and resolve is      *)
(* never called.                                                           *)
ReadEntriesFails(d, p) ==
  /\ drop[d].status = "walking"
  /\ task[d][p].pc = "read"
  /\ task' = [task EXCEPT ![d][p].pc = "lost"]
  /\ UNCHANGED <<folderStructure, combinedText, isDragging, maxFileSize,
                 showSizeWarning, drop, lastDrop, prev, overlap>>

\* what is dropped on a disk whose reads can fail
FaultyRoots == {2, 4, 10}
FaultyItems == {<<x>> : x \in FaultyRoots}

NextFaulty ==
  \/ \E items \in FaultyItems : HandleDrop(items)
  \/ \E d \in Slots, e \in Entries : FileCallback(d, e)
  \/ \E d \in Slots, e \in Entries : TextLoaded(d, e)
  \/ \E d \in Slots, p \in Entries, k \in 0..MaxBatch : ReadEntriesCallback(d, p, k)
  \/ \E d \in Slots, e \in Entries : FileFails(d, e)
  \/ \E d \in Slots, e \in Entries : TextFails(d, e)
  \/ \E d \in Slots, p \in Entries : ReadEntriesFails(d, p)

(* The same user on a disk whose reads can fail: every pending read either *)
(* delivers or fails.                                                      *)
SpecFaulty == Init /\ [][NextFaulty]_vars

----------------------------------------------------------------------------
(* Drops that overlap *)

InitOverlap ==
  /\ folderStructure = null
  /\ combinedText = <<>>
  /\ isDragging = FALSE
  /\ maxFileSize = DefaultMaxFileSize
  /\ showSizeWarning = FALSE
  /\ drop = [d \in Slots |-> NoDrop]
  /\ task = [d \in Slots |-> [e \in Entries |-> NoTask]]
  /\ lastDrop = 0
  /\ prev = NoDrop
  /\ overlap = TRUE

\* what the user who does not wait drops
OverlapRoots == {2, 3, 4, 12}
OverlapItems == {<<x>> : x \in OverlapRoots}

\* a callback of the traversal in slot d is delivered
Delivery(d) ==
  \/ \E e \in Entries : FileCallback(d, e)
  \/ \E e \in Entries : TextLoaded(d, e)
  \/ \E p \in Entries, k \in 0..MaxBatch : ReadEntriesCallback(d, p, k)

NextOverlap ==
  \/ \E items \in OverlapItems : HandleDrop(items)
  \/ \E d \in Slots : Delivery(d)

(* The user who drops again while traversals are in flight (handleDrop has *)
(* no guard against it), as many at a time as there are slots.             *)
SpecOverlap == InitOverlap /\ [][NextOverlap]_vars

(* The browser delivers every callback it owes: a traversal with a pending *)
(* read is not passed over forever.                                        *)
Delivered == \A d \in Slots : WF_vars(Delivery(d))

\* what is dropped where delivery is guaranteed
DeliveredRoots == {2, 3, 19}
DeliveredItems == {<<x>> : x \in DeliveredRoots}

NextDelivered ==
  \/ \E items \in DeliveredItems : HandleDrop(items)
  \/ \E d \in Slots : Delivery(d)

SpecDelivered == InitOverlap /\ [][NextDelivered]_vars /\ Delivered

----------------------------------------------------------------------------
(* Vocabulary of the properties, defined on the disk and on trees without  *)
(* the walker's own operators.                                             *)

\* the name is one of the ignore set
InIgnoreSet(name) == \E i \in DOMAIN directoriesToIgnore : directoriesToIgnore[i] = name

\* the chain of directories above e on the disk, nearest first
RECURSIVE AncestorsOf(_)
AncestorsOf(e) ==
  IF ParentOf[e] = 0 THEN <<>> ELSE <<ParentOf[e]>> \o AncestorsOf(ParentOf[e])

\* the directories named in the ignore set, and all that lies below them
IgnoredZone ==
  {e \in Entries :
     \/ Disk[e].isDirectory /\ InIgnoreSet(Disk[e].name)
     \/ \E i \in DOMAIN AncestorsOf(e) : InIgnoreSet(Disk[AncestorsOf(e)[i]].name)}

\* the nodes of a tree in depth-first child order; none for null
RECURSIVE PreOrder(_)
RECURSIVE PreOrderOfEach(_)
PreOrderOfEach(nodes) ==
  IF nodes = <<>> THEN <<>>
  ELSE PreOrder(Head(nodes)) \o PreOrderOfEach(Tail(nodes))

PreOrder(node) ==
  IF node = null THEN <<>>
  ELSE IF node.isDirectory THEN <<node>> \o PreOrderOfEach(node.children)
  ELSE <<node>>

\* sub occurs in text
Occurs(sub, text) ==
  \E i \in 1..(Len(text) - Len(sub) + 1) :
    text[i] = sub[1] /\ SubSeq(text, i, i + Len(sub) - 1) = sub

\* the trees the program holds: the stored one and each drop's structure
HeldTrees == {folderStructure, prev.structure} \cup {drop[d].structure : d \in Slots}

\* the drops whose traversal has started
Started == {d \in Slots : drop[d].status # "none"}

----------------------------------------------------------------------------
(* C1: a directory named in the ignore set, and everything below it, is    *)
(* never a node of a tree the walker builds; the walker creates no reader  *)
(* on it and starts no read below it; neither its name nor a path through  *)
(* it occurs in the rendered output.                                       *)
C1_IgnoredSubtreesExcluded ==
  /\ \A d \in Slots, e \in IgnoredZone :
       /\ ~task[d][e].reader
       /\ task[d][e].pc \in {"none", "done"}
       /\ task[d][e].node = null
       /\ task[d][e].pc = "done" => e = drop[d].root
  /\ \A tree \in HeldTrees :
       LET nodes == PreOrder(tree)
       IN \A i \in DOMAIN nodes, e \in IgnoredZone : nodes[i].name # Disk[e].name
  /\ \A e \in IgnoredZone : ~Occurs(Disk[e].name, combinedText)

\* project was dropped and walked to the end: its tree is stored, and
\* node_modules/index.js, a text file by type and extension, was never called
C1_Witness ==
  \E d \in Slots :
    /\ drop[d].status = "done"
    /\ drop[d].root = 1
    /\ folderStructure = drop[d].structure
    /\ Len(folderStructure.children) = 3
    /\ 3 \in IgnoredZone /\ 6 \in IgnoredZone /\ 6 \in TextCandidates
    /\ task[d][3].pc = "none" /\ task[d][6].pc = "none"

----------------------------------------------------------------------------
\* a text candidate: media type 'text/...' or an allow-listed extension
\* under toLowerCase
CandidateEntries ==
  {e \in Entries :
     \/ /\ Len(Disk[e].type) >= 5
        /\ SubSeq(Disk[e].type, 1, 5) = <<"t", "e", "x", "t", "/">>
     \/ \E i \in DOMAIN textExtensions :
          endsWith(toLowerCase(Disk[e].name), textExtensions[i])}

Candidate(e) == e \in CandidateEntries

\* the entry a node was built from (names are unique on the disk)
EntryOf(node) == CHOOSE e \in Entries : Disk[e].name = node.name

\* a text candidate strictly under limit MiB
Included(e, limit) == Candidate(e) /\ Disk[e].size < limit * 1024 * 1024

(* C2: a file's content is read only if it is a text candidate strictly    *)
(* under the limit of its drop, and its File node holds the text in that   *)
(* case and the empty string in every other.                               *)
C2_ContentIffCandidateUnderLimit ==
  \A d \in Started :
    /\ \A e \in Entries :
         /\ task[d][e].pc = "text" => Disk[e].isFile /\ Included(e, drop[d].limit)
         /\ (Disk[e].isFile /\ task[d][e].pc = "done") =>
              /\ ~task[d][e].node.isDirectory
              /\ task[d][e].node.content =
                   IF Included(e, drop[d].limit) THEN Disk[e].text ELSE <<>>
    /\ LET nodes == PreOrder(drop[d].structure)
       IN \A i \in DOMAIN nodes :
            ~nodes[i].isDirectory =>
              nodes[i].content =
                IF Included(EntryOf(nodes[i]), drop[d].limit)
                THEN Disk[EntryOf(nodes[i])].text ELSE <<>>

\* data was walked under a limit of 1 MiB: under.txt (1 MiB - 1) has its
\* text, EDGE.LOG (exactly 1 MiB) and logo.png (no candidate) are empty
C2_Witness ==
  \E d \in Slots :
    /\ drop[d].status = "done" /\ drop[d].root = 10 /\ drop[d].limit = 1
    /\ Disk[11].size = (1024 * 1024) - 1 /\ Disk[12].size = 1024 * 1024
    /\ drop[d].structure.children[1].content = Disk[11].text
    /\ Disk[11].text # <<>>
    /\ drop[d].structure.children[2].content = <<>>
    /\ ~Candidate(14) /\ drop[d].structure.children[4].content = <<>>

----------------------------------------------------------------------------
\* the files of drop d classified so far as text candidates at or over the limit
OversizeSeen(d) ==
  {e \in Entries :
     /\ Disk[e].isFile /\ task[d][e].pc = "done"
     /\ Candidate(e) /\ Disk[e].size >= drop[d].limit * 1024 * 1024}

(* C3: while a drop runs alone, and after it until the next drop event,    *)
(* the warning is shown exactly if a text candidate at or over the limit   *)
(* has been classified in it.                                              *)
C3_WarningIffOversizeCandidate ==
  \A d \in Started :
    drop[d].alone => (showSizeWarning <=> OversizeSeen(d) # {})

\* data was walked alone after an earlier drop: the warning is up, for
\* EDGE.LOG or huge.log and not for logo.png
C3_Witness ==
  \E d \in Slots :
    /\ drop[d].alone /\ drop[d].status = "done" /\ drop[d].root = 10
    /\ prev.status = "done"
    /\ showSizeWarning
    /\ 14 \notin OversizeSeen(d) /\ task[d][14].pc = "done"
    /\ Disk[14].size >= drop[d].limit * 1024 * 1024

----------------------------------------------------------------------------
\* the names of the entries or nodes of a sequence
EntryNames(entries) == [i \in DOMAIN entries |-> Disk[entries[i]].name]
NodeNames(nodes) == [i \in DOMAIN nodes |-> nodes[i].name]

\* the listing of directory p without the directories named in the ignore set
Surviving(p) ==
  SelectSeq(Disk[p].listing,
            LAMBDA c : ~(Disk[c].isDirectory /\ InIgnoreSet(Disk[c].name)))

(* C4: the children of every Directory node are the entries its reader     *)
(* enumerated, ignored directories removed, in the reader's order.         *)
C4_ChildrenInEnumerationOrder ==
  /\ \A d \in Started, p \in Entries :
       (task[d][p].pc = "done" /\ task[d][p].node # null /\ task[d][p].node.isDirectory)
         => NodeNames(task[d][p].node.children) = EntryNames(Surviving(p))
  /\ LET nodes == PreOrder(folderStructure)
     IN \A i \in DOMAIN nodes :
          nodes[i].isDirectory =>
            NodeNames(nodes[i].children) = EntryNames(Surviving(EntryOf(nodes[i])))

\* project was walked with a child overtaking an earlier sibling, and its
\* three surviving children are in the reader's order
C4_Witness ==
  \E d \in Slots :
    /\ drop[d].status = "done" /\ drop[d].root = 1 /\ drop[d].raced
    /\ NodeNames(drop[d].structure.children) = <<Disk[2].name, Disk[4].name, Disk[5].name>>

----------------------------------------------------------------------------
(* C5: a directory's invocation reads on until the empty batch: while it   *)
(* reads, results is the listing up to what the reader has handed out and  *)
(* no child is called; once it goes on, results is the whole listing, and  *)
(* the children called are its entries outside the ignore set.             *)
C5_ReadsUntilEmptyBatch ==
  \A d \in Started, p \in Entries :
    LET t == task[d][p]
        listing == Disk[p].listing
    IN /\ t.pc = "read" =>
            /\ t.results = SubSeq(listing, 1, t.pos)
            /\ \A i \in DOMAIN listing : task[d][listing[i]].pc = "none"
       /\ (t.pc = "all" \/ (t.pc = "done" /\ t.reader)) =>
            /\ t.results = listing
            /\ t.pos = Len(listing)
            /\ \A i \in DOMAIN listing :
                 task[d][listing[i]].pc # "none" <=> listing[i] \notin IgnoredZone

\* lib's five entries came in several batches and its children are called
C5_Witness ==
  \E d \in Slots :
    /\ drop[d].paged /\ drop[d].root = 15
    /\ task[d][15].pc = "all"
    /\ task[d][15].results = Disk[15].listing
    /\ Len(Disk[15].listing) > MaxBatch

----------------------------------------------------------------------------
\* '/' + name for each name, in order
RECURSIVE Slashed(_)
Slashed(names) ==
  IF names = <<>> THEN <<>>
  ELSE <<"/">> \o Head(names) \o Slashed(Tail(names))

\* every node below and including `node` has the path made of the names of
\* its ancestors, from the root down, and of its own
RECURSIVE PathsSpellAncestors(_, _)
PathsSpellAncestors(node, above) ==
  /\ node.path = Slashed(Append(above, node.name))
  /\ Len(node.path) >= Len(node.name)
  /\ SubSeq(node.path, Len(node.path) - Len(node.name) + 1, Len(node.path)) = node.name
  /\ node.isDirectory =>
       \A i \in DOMAIN node.children :
         PathsSpellAncestors(node.children[i], Append(above, node.name))

(* C9: in every tree the walker builds, a node's path is its parent's path *)
(* followed by '/' and its name, the root's being '/' and its name: a node *)
(* at depth d has the d + 1 names of its ancestors and itself as segments. *)
C9_PathIsParentPathSlashName ==
  /\ \A tree \in HeldTrees : tree # null => PathsSpellAncestors(tree, <<>>)
  /\ \A d \in Started, e \in Entries :
       (task[d][e].pc = "done" /\ task[d][e].node # null /\ e # drop[d].root) =>
          LET up == task[d][ParentOf[e]]
          IN task[d][e].node.path
               = up.path \o <<"/">> \o Disk[ParentOf[e]].name \o <<"/">> \o Disk[e].name

\* project is stored, and main.ts, at depth 2, has the path /project/src/main.ts
C9_Witness ==
  /\ folderStructure # null
  /\ folderStructure.isDirectory
  /\ Len(folderStructure.children) = 3
  /\ folderStructure.children[2].isDirectory
  /\ Len(folderStructure.children[2].children) = 1
  /\ folderStructure.children[2].children[1].path
       = <<"/", "p", "r", "o", "j", "e", "c", "t", "/", "s", "r", "c",
           "/", "m", "a", "i", "n", ".", "t", "s">>

----------------------------------------------------------------------------
\* the latest drop and the one before it walked the same entry under the
\* same limit, both to the end
SameRunTwice(d) ==
  /\ d = lastDrop
  /\ drop[d].status = "done" /\ prev.status = "done"
  /\ prev.root = drop[d].root
  /\ prev.limit = drop[d].limit

(* C10: two walks of the same entry of the unchanged disk under the same   *)
(* limit give trees with the same rendered tree text and the same          *)
(* aggregated content, however the callbacks of the two walks interleave.  *)
C10_SameSnapshotSameOutput ==
  \A d \in Slots :
    SameRunTwice(d) =>
      IF prev.structure = null \/ drop[d].structure = null
      THEN prev.structure = drop[d].structure
      ELSE /\ generateTreeText(prev.structure, 0, TRUE)
                = generateTreeText(drop[d].structure, 0, TRUE)
           /\ generateCombinedText(prev.structure)
                = generateCombinedText(drop[d].structure)

\* lib was walked twice under one limit, once with a child overtaking an
\* earlier sibling and once with every child settling in the reader's order
C10_Witness ==
  \E d \in Slots :
    /\ SameRunTwice(d)
    /\ drop[d].root = 15
    /\ prev.raced /\ ~drop[d].raced

----------------------------------------------------------------------------
(* The stored text, taken apart: the heading, the tree lines up to the     *)
(* first empty line, and the aggregated content after that line.           *)

\* the text after its first n characters
Drop(text, n) == SubSeq(text, n + 1, Len(text))

\* the length of the first line of a text that holds a line break
FirstLineLength(text) ==
  CHOOSE n \in 0..(Len(text) - 1) :
    /\ text[n + 1] = "\n"
    /\ \A j \in 1..n : text[j] # "\n"

\* the lines of a text up to, and without, its first empty line
RECURSIVE LinesUntilEmpty(_)
LinesUntilEmpty(text) ==
  IF text = <<>> \/ text[1] = "\n" THEN <<>>
  ELSE LET n == FirstLineLength(text)
       IN <<SubSeq(text, 1, n)>> \o LinesUntilEmpty(Drop(text, n + 1))

\* the sum of the lengths of the lines, line breaks included
RECURSIVE TotalLength(_)
TotalLength(lines) ==
  IF lines = <<>> THEN 0 ELSE Len(Head(lines)) + 1 + TotalLength(Tail(lines))

\* 'Folder Structure:' and its line break are 18 characters
StoredTreeLines == LinesUntilEmpty(Drop(combinedText, 18))
StoredFilesText == Drop(combinedText, 18 + TotalLength(StoredTreeLines) + 1)

\* the File nodes with content among the nodes
WithContent(nodes) ==
  SelectSeq(nodes, LAMBDA n : ~n.isDirectory /\ n.content # <<>>)

\* the concatenation of the texts of a sequence
RECURSIVE Flatten(_)
Flatten(texts) ==
  IF texts = <<>> THEN <<>> ELSE Head(texts) \o Flatten(Tail(texts))

----------------------------------------------------------------------------
(* C6: the aggregated content is one block for each File node with         *)
(* non-empty content, in depth-first child order, and nothing else:        *)
(* nothing for a Directory node or a File node with empty content.         *)
C6_OneBlockPerContentFileInPreOrder ==
  folderStructure # null =>
    LET files == WithContent(PreOrder(folderStructure))
    IN StoredFilesText = Flatten([i \in DOMAIN files |-> FileBlock(files[i])])

\* lib is stored: a directory, an empty file and a file without content
\* come before and after its one file with content
C6_Witness ==
  /\ folderStructure # null
  /\ folderStructure.name = Disk[15].name
  /\ Len(PreOrder(folderStructure)) = 5
  /\ Len(WithContent(PreOrder(folderStructure))) = 1
  /\ StoredFilesText # <<>>

----------------------------------------------------------------------------
\* 80 '=' characters
EightyEquals == [i \in 1..80 |-> "="]

\* the block as the claim words it: separator line, 'File: <path>' line,
\* separator line, blank line, content, line break
BlockAsWorded(node) ==
  EightyEquals \o <<"\n">>
    \o <<"F", "i", "l", "e", ":", " ">> \o node.path \o <<"\n">>
    \o EightyEquals \o <<"\n">>
    \o <<"\n">>
    \o node.content \o <<"\n">>

\* C7 as worded: nothing comes before the first separator line of a block
C7_AsWorded ==
  folderStructure # null =>
    LET files == WithContent(PreOrder(folderStructure))
    IN StoredFilesText = Flatten([i \in DOMAIN files |-> BlockAsWorded(files[i])])

(* C7, amended: the block of a File node with content is one line break,   *)
(* then a separator line of 80 '=', the line 'File: <path>', a second      *)
(* separator line, one blank line, the content and one line break, and     *)
(* nothing else.                                                           *)
C7_BlockStartsWithLineBreak ==
  folderStructure # null =>
    LET files == WithContent(PreOrder(folderStructure))
    IN StoredFilesText
         = Flatten([i \in DOMAIN files |-> <<"\n">> \o BlockAsWorded(files[i])])

\* project is stored with the blocks of readme.md, main.ts and .env
C7_Witness ==
  /\ folderStructure # null
  /\ folderStructure.name = Disk[1].name
  /\ Len(WithContent(PreOrder(folderStructure))) = 3
  /\ Len(StoredFilesText) > 3 * (2 * 80)

----------------------------------------------------------------------------
\* the line holds a connector
HasConnector(line) ==
  \E i \in DOMAIN line : line[i] = "U+2514" \/ line[i] = "U+251C"

\* the line without its indentation and connector
RECURSIVE Unindented(_)
Unindented(line) ==
  IF line # <<>> /\ line[1] \in {" ", "U+2514", "U+251C", "U+2500"}
  THEN Unindented(Tail(line))
  ELSE line

(* C8: the rendered tree has one line per node, in depth-first child       *)
(* order, and the root's line is the only one without a connector.         *)
C8_OneLinePerNodeRootBare ==
  folderStructure # null =>
    LET nodes == PreOrder(folderStructure)
        lines == StoredTreeLines
    IN /\ Len(lines) = Len(nodes)
       /\ \A i \in DOMAIN lines :
            /\ Len(Unindented(lines[i])) >= Len(nodes[i].name)
            /\ SubSeq(Unindented(lines[i]), 1, Len(nodes[i].name)) = nodes[i].name
       /\ {i \in DOMAIN lines : ~HasConnector(lines[i])} = {1}

\* lib is stored: five lines for its two directories and three files; and
\* the empty directory alone renders as its one line and no content
C8_Witness ==
  /\ folderStructure # null
  /\ folderStructure.name = Disk[15].name
  /\ Len(PreOrder(folderStructure)) = 5
  /\ Len(StoredTreeLines) = 5
  /\ prev.root = 23
  /\ prev.structure = DirectoryNode(Disk[23].name, <<"/">> \o Disk[23].name, <<>>)


----------------------------------------------------------------------------
(* Vocabulary of the properties about drops as wholes *)

\* the entries of drop d whose read has failed
FailedReads(d) == {e \in Entries : task[d][e].pc = "lost"}

\* the entries of drop d that still wait for a callback or a text
PendingReads(d) == {e \in Entries : task[d][e].pc \in {"file", "text", "read"}}

\* the names of the nodes of a tree that carry no content
EmptyNodeNames(tree) ==
  {PreOrder(tree)[i].name : i \in {j \in DOMAIN PreOrder(tree) :
                                     /\ Has(PreOrder(tree)[j], "content")
                                     /\ PreOrder(tree)[j].content = <<>>}}

----------------------------------------------------------------------------
(* C11: if a file read or a directory read fails during a drop, the        *)
(* traversal still completes: once no read of the drop is pending any      *)
(* more, the drop is done, its tree and combined text are stored, and each *)
(* entry whose read failed is a node of that tree with empty content.      *)
C11_FailedReadStillCompletes ==
  \A d \in Slots :
    (FailedReads(d) # {} /\ PendingReads(d) = {})
      => /\ drop[d].status = "done"
         /\ drop[d].structure # null
         /\ folderStructure = drop[d].structure
         /\ combinedText # <<>>
         /\ \A e \in FailedReads(d) : Disk[e].name \in EmptyNodeNames(drop[d].structure)


----------------------------------------------------------------------------
----------------------------------------------------------------------------
\* this step starts a drop in slot d: only handleDrop touches a slot whose
\* traversal is not in flight, and it leaves the slot it takes as the latest
StartsIn(d) ==
  /\ drop[d].status # "walking"
  /\ drop'[d].latest
  /\ <<drop[d], task[d]>>' # <<drop[d], task[d]>>

\* this step delivers the File of entry e to the traversal in slot d
Classifies(d, e) == task[d][e].pc = "file" /\ task'[d][e].pc # "file"

(* C13: a change of the maximum file size changes neither the stored tree, *)
(* nor the combined text, nor the size warning, nor any drop; a drop keeps *)
(* the limit that was in effect when it started, and every file of it is   *)
(* classified, for its content and for the warning, against that limit,    *)
(* whatever the slider shows by then.                                      *)
C13_LimitFixedAtDropStart ==
  [][/\ maxFileSize' # maxFileSize =>
          UNCHANGED <<folderStructure, combinedText, showSizeWarning, drop, task>>
     /\ \A d \in Slots :
          /\ StartsIn(d) => drop'[d].limit = maxFileSize
          /\ ~StartsIn(d) => drop'[d].limit = drop[d].limit
          /\ \A e \in Entries :
               Classifies(d, e) =>
                 /\ (task'[d][e].pc = "text") <=> Included(e, drop[d].limit)
                 /\ showSizeWarning' =
                      (showSizeWarning \/ (Candidate(e) /\ ~Included(e, drop[d].limit)))
    ]_vars

\* data is being walked under the limit of 1 MiB it started with while the
\* slider shows 2: EDGE.LOG (exactly 1 MiB) was left empty and raised the
\* warning, huge.log and under.txt are still to be classified
C13_Witness ==
  \E d \in Slots :
    /\ drop[d].status = "walking"
    /\ drop[d].root = 10
    /\ drop[d].limit = 1
    /\ maxFileSize = 2
    /\ task[d][12].pc = "done"
    /\ task[d][12].node.content = <<>>
    /\ showSizeWarning
    /\ task[d][11].pc = "file"
    /\ task[d][13].pc = "file"


----------------------------------------------------------------------------
(* C14: after a drop whose root is a directory named in the ignore set,    *)
(* and until the next drop event, the walker has returned null without a   *)
(* reader or a read, and nothing is rendered: no tree, no combined text,   *)
(* no warning, whatever was dropped before.                                *)
C14_IgnoredRootLeavesNothingRendered ==
  \A d \in Slots :
    (/\ drop[d].latest
     /\ Disk[drop[d].root].isDirectory
     /\ InIgnoreSet(Disk[drop[d].root].name))
      => /\ drop[d].status = "done"
         /\ drop[d].structure = null
         /\ \A e \in Entries : ~task[d][e].reader /\ task[d][e].pc \in {"none", "done"}
         /\ folderStructure = null
         /\ combinedText = <<>>
         /\ ~showSizeWarning


----------------------------------------------------------------------------
(* C15: a drop event that carries no droppable entry, because the item     *)
(* list is empty or because its first item yields no entry, starts no      *)
(* traversal and leaves the stored tree, the combined text and the size    *)
(* warning as they were.                                                   *)
C15_NoEntryDropChangesNothing ==
  [][(HandleDrop(<<>>) \/ HandleDrop(<<0>>)) =>
       UNCHANGED <<folderStructure, combinedText, showSizeWarning, task>>]_vars


----------------------------------------------------------------------------
\* 'Folder Structure:\n'
HeadingAsWorded ==
  <<"F", "o", "l", "d", "e", "r", " ", "S", "t", "r", "u", "c", "t", "u", "r", "e",
    ":", "\n">>

(* C16: in every state, with drops overlapping or not, either nothing is   *)
(* stored (no tree, empty text, and no drop the program still holds has    *)
(* produced a tree) or the combined text is 'Folder Structure:\n', the     *)
(* tree text of the stored tree, '\n' and the file blocks of the stored    *)
(* tree: tree and text are always of one and the same drop.                *)
C16_TextIsOfStoredTree ==
  IF folderStructure = null
  THEN /\ combinedText = <<>>
       /\ HeldTrees = {null}
  ELSE combinedText = HeadingAsWorded \o generateTreeText(folderStructure, 0, TRUE)
                        \o <<"\n">> \o generateCombinedText(folderStructure)

\* two overlapping drops have both finished, the one started first last:
\* tree and text are its own, not those of the drop started after it
C16_Witness ==
  /\ NoDropInFlight
  /\ \E d \in Slots :
       /\ d # lastDrop
       /\ drop[d].status = "done"
       /\ drop[d].structure # null
       /\ folderStructure = drop[d].structure
       /\ drop[lastDrop].status = "done"
       /\ drop[lastDrop].structure \notin {null, folderStructure}
       /\ combinedText # <<>>


----------------------------------------------------------------------------
\* every traversal has completed and slot d holds the drop started last
LatestOfAllDone(d) == NoDropInFlight /\ lastDrop = d /\ drop[d].latest

(* C17: the size warning belongs to its drop: once all drops have          *)
(* completed, the warning is shown exactly if the drop started last        *)
(* skipped a text candidate for its size; what an earlier drop's reads     *)
(* found after the later drop had cleared the warning does not show.       *)
C17_WarningIsOfLatestDrop ==
  \A d \in Slots :
    LatestOfAllDone(d) => (showSizeWarning <=> OversizeSeen(d) # {})

(* C18: once all traversals have completed, the stored tree and combined   *)
(* text are those of the drop started last among the drops that produced a *)
(* tree: the result of a drop is never replaced by the result of a drop    *)
(* started before it.                                                      *)
C18_ResultIsOfLatestDrop ==
  \A d \in Slots :
    (LatestOfAllDone(d) /\ drop[d].structure # null)
      => /\ folderStructure = drop[d].structure
         /\ combinedText = HeadingAsWorded \o generateTreeText(drop[d].structure, 0, TRUE)
                             \o <<"\n">> \o generateCombinedText(drop[d].structure)


----------------------------------------------------------------------------
(* node stands for entry e of the disk, walked under limit: same name and  *)
(* kind; a file with its reported size, and with empty content when it is  *)
(* no text candidate under the limit; a directory with one child node for  *)
(* each entry of its listing that is not an ignored directory, each        *)
(* standing for its entry in turn.                                         *)
RECURSIVE Faithful(_, _, _)
Faithful(node, e, limit) ==
  /\ node # null
  /\ node.name = Disk[e].name
  /\ node.isDirectory = Disk[e].isDirectory
  /\ IF Disk[e].isFile
     THEN /\ node.size = Disk[e].size
          /\ ~Included(e, limit) => node.content = <<>>
          /\ ~Has(node, "children")
     ELSE /\ Len(node.children) = Len(Surviving(e))
          /\ \A i \in DOMAIN node.children :
               Faithful(node.children[i], Surviving(e)[i], limit)

\* the drops the program holds a record of
Records == {drop[d] : d \in Slots} \cup {prev}

(* C19: the tree of a completed drop whose root is not an ignored          *)
(* directory holds every entry reachable from the root without passing     *)
(* through an ignored directory, as exactly one node under its parent's    *)
(* node, of the same kind, a file with its reported size: files named in   *)
(* the ignore set are kept, files skipped for size or type are kept with   *)
(* empty content, a directory whose children are all ignored is kept with  *)
(* no children.                                                            *)
C19_TreeCompleteAndFaithful ==
  \A r \in Records :
    (r.status = "done" /\ ~(Disk[r.root].isDirectory /\ InIgnoreSet(Disk[r.root].name)))
      => Faithful(r.structure, r.root, r.limit)

\* lib was walked: dist is left out; the empty file zero.txt, the file
\* .DS_Store, whose name is in the ignore set, and shell, whose only child
\* is the ignored build, are kept, shell without children
C19_Witness ==
  \E d \in Slots :
    /\ drop[d].status = "done"
    /\ drop[d].root = 15
    /\ LET nodes == PreOrder(drop[d].structure)
       IN /\ Len(nodes) = 5
          /\ \E i \in DOMAIN nodes :
               nodes[i].name = Disk[20].name /\ ~nodes[i].isDirectory
          /\ \E i \in DOMAIN nodes :
               nodes[i].name = Disk[19].name /\ nodes[i].children = <<>>
          /\ \E i \in DOMAIN nodes :
               nodes[i].name = Disk[17].name /\ nodes[i].size = 0


----------------------------------------------------------------------------
\* the nodes of a tree in depth-first child order, each with its depth and
\* with whether it is the last child of its parent
RECURSIVE Marked(_, _, _)
RECURSIVE MarkedEach(_, _, _)
MarkedEach(children, i, depth) ==
  IF i > Len(children) THEN <<>>
  ELSE Marked(children[i], depth, i = Len(children)) \o MarkedEach(children, i + 1, depth)

Marked(node, depth, isLast) ==
  <<[node |-> node, depth |-> depth, last |-> isLast]>>
    \o (IF node.isDirectory THEN MarkedEach(node.children, 1, depth + 1) ELSE <<>>)

Blanks(n) == [i \in 1..n |-> " "]

\* nothing for the root; else 2 * (depth - 1) spaces and the connector,
\* the elbow for a last child, the tee for any other
PrefixAsWorded(depth, isLast) ==
  IF depth = 0 THEN <<>>
  ELSE Blanks(2 * (depth - 1)) \o <<IF isLast THEN "U+2514" ELSE "U+251C", "U+2500", " ">>

\* ' (' ... ' KB)' around at least one character
IsSizeSuffix(text) ==
  /\ Len(text) > 6
  /\ SubSeq(text, 1, 2) = <<" ", "(">>
  /\ SubSeq(text, Len(text) - 3, Len(text)) = <<" ", "K", "B", ")">>

(* C20: in the rendered tree the line of a node at depth d > 0 starts with *)
(* exactly 2 * (d - 1) spaces and the connector, elbow for a last child    *)
(* and tee otherwise, followed by the name; the root's line starts with    *)
(* its name; a size suffix follows the name exactly for a file of non-zero *)
(* size, and nothing follows it for a directory or a zero-byte file.       *)
C20_PrefixByDepthAndSizeSuffix ==
  folderStructure # null =>
    LET marks == Marked(folderStructure, 0, TRUE)
        lines == StoredTreeLines
    IN /\ Len(lines) = Len(marks)
       /\ \A i \in DOMAIN marks :
            LET node == marks[i].node
                start == PrefixAsWorded(marks[i].depth, marks[i].last) \o node.name
                rest == Drop(lines[i], Len(start))
            IN /\ Len(lines[i]) >= Len(start)
               /\ SubSeq(lines[i], 1, Len(start)) = start
               /\ IF ~node.isDirectory /\ node.size # 0
                  THEN IsSizeSuffix(rest)
                  ELSE rest = <<>>

\* project is stored: src, not the last child, has the tee and no suffix;
\* main.ts, two levels down and the last child, has two spaces, the elbow
\* and its size; .env, the last child of the root, has the elbow
C20_Witness ==
  /\ folderStructure # null
  /\ folderStructure.name = Disk[1].name
  /\ Len(StoredTreeLines) = 5
  /\ StoredTreeLines[1] = Disk[1].name
  /\ StoredTreeLines[3] = <<"U+251C", "U+2500", " ", "s", "r", "c">>
  /\ StoredTreeLines[4] = <<" ", " ", "U+2514", "U+2500", " ", "m", "a", "i", "n", ".", "t", "s",
                            " ", "(", "0", ".", "0", " ", "K", "B", ")">>
  /\ SubSeq(StoredTreeLines[5], 1, 7) = <<"U+2514", "U+2500", " ", ".", "e", "n", "v">>

====
